---- MODULE Spec2Model ----
\* UniWeb (SocialWeb): the graph store behind the views of src/SocialWeb/views.py
\* and the handlers that read and write it.  A node's uid is its index in the
\* store's sequence of nodes of its kind; a string is a sequence of characters.
EXTENDS Integers, Sequences, FiniteSets, TLC

VARIABLES
    posts,              \* Post nodes, in store order
    following,          \* User.following: per user, the FOLLOWS edges in connect order
    post_liked_by,      \* Post.liked_by: per post, the LIKED_POST edges
    comments,           \* Comment nodes, in store order
    has_comment,        \* HAS_COMMENT edges <<post uid, comment uid>>
    has_reply,          \* HAS_REPLY edges <<parent comment uid, reply uid>>
    comment_liked_by,   \* Comment.liked_by: per comment, the LIKED_COMMENT edges
    notifications,      \* Notification nodes, in store order
    messages,           \* Message nodes, in store order
    now,                \* the clock DateTimeProperty(default_now=True) reads
    inflight,           \* requests whose handler has started and not yet returned
    resp,               \* the response of the request handled last
    handled             \* number of requests handled so far

vars == <<posts, following, post_liked_by, comments, has_comment, has_reply,
          comment_liked_by, notifications, messages, now, inflight, resp, handled>>

-----------------------------------------------------------------------------
\* Bounds of the model.

MaxBacklog == 21        \* posts already in the store when the feed is studied
MaxHead == 2            \* posts added on top of the backlog
MaxOps == 4             \* requests handled in one behaviour of the social specification
MaxSteps == 3           \* requests started in one behaviour of the step-level specification
MaxTree == 5            \* posts, comments and replies started in the comment-tree specification

\* Program constants.
FEED_LIMIT == 20        \* views.py:97  feed[:20]

COMMENT_MAX == 500      \* views.py:831  len(text) > 500

MESSAGE_MAX == 2000     \* views.py:534  len(text) > 2000

Users == {"ana", "beto", "caro"}        \* registered usernames
Ghost == "ghost"                        \* a username no User node has
Anonymous == ""                         \* request.session.get("username") of no session
Sessions == Users \cup {Ghost, Anonymous}
Names == Users \cup {Ghost}
\* who sends a request, and with which method: anyone, or a registered user
Callers == (Sessions \X {"POST"}) \cup {<<"ana", "GET">>}
Members == Users \X {"POST"}

-----------------------------------------------------------------------------
\* Sequences and strings.

Range(s) == {s[i] : i \in DOMAIN s}

\* s[:n]
Take(s, n) == IF Len(s) <= n THEN s ELSE SubSeq(s, 1, n)

\* [x for x in s if Keep(x)]
Filter(s, Keep(_)) == SelectSeq(s, Keep)

Chars == {"a", "b", "A", "B", "#", " "}

\* str.lower() on one character
LowerChar(c) == CASE c = "A" -> "a" [] c = "B" -> "b" [] OTHER -> c

\* str.lower()
Lower(s) == [i \in DOMAIN s |-> LowerChar(s[i])]

RECURSIVE LStrip(_)
LStrip(s) == IF s # <<>> /\ Head(s) = " " THEN LStrip(Tail(s)) ELSE s

RECURSIVE RStrip(_)
RStrip(s) == IF s # <<>> /\ s[Len(s)] = " " THEN RStrip(SubSeq(s, 1, Len(s) - 1)) ELSE s

\* str.strip()
Strip(s) == RStrip(LStrip(s))

-----------------------------------------------------------------------------
\* Lookups.

\* _get_user_by_username: the User node, or None
get_user_by_username(username) == IF username \in Users THEN username ELSE "None"

\* Post.nodes.get(uid=post_uid) succeeds
PostExists(post_uid) == post_uid \in DOMAIN posts

\* user.following.all(), as the set of usernames built from it
following_usernames(username) == Range(following[username])

\* a second edge between the same two nodes
connect_again(edges, node) == Append(edges, node)

\* RelationshipManager.connect: MERGE, one edge per pair of nodes
connect(edges, node) == IF node \in Range(edges) THEN edges ELSE Append(edges, node)

\* the edge left in place
disconnect_nothing(edges, node) == edges

\* RelationshipManager.disconnect: deletes the edges between the two nodes
disconnect(edges, node) == SelectSeq(edges, LAMBDA n : n # node)

\* _safe_rel_count
safe_rel_count(edges) == Len(edges)

-----------------------------------------------------------------------------
\* new_post_view: hashtag normalisation and creation of the Post node.

\* "Normalize hashtags to lower without leading '#'"
RECURSIVE norm_tags(_)
norm_tags(hashtags) ==
    IF hashtags = <<>> THEN <<>>
    ELSE LET t1 == Strip(Head(hashtags))
             t2 == IF t1 # <<>> /\ Head(t1) = "#" THEN Tail(t1) ELSE t1
         IN  IF t1 = <<>> \/ t2 = <<>>
             THEN norm_tags(Tail(hashtags))
             ELSE <<Lower(t2)>> \o norm_tags(Tail(hashtags))

NewPost(session, title, hashtags, stamp) ==
    /\ IF session = Anonymous \/ get_user_by_username(session) = "None"
       THEN /\ resp' = [op |-> "new_post", status |-> 302, to |-> "login"]
            /\ UNCHANGED <<posts, post_liked_by, now>>
       ELSE IF Strip(title) = <<>> \/ hashtags = <<>>
       THEN /\ resp' = [op |-> "new_post", status |-> 200, to |-> "new_post.html"]
            /\ UNCHANGED <<posts, post_liked_by, now>>
       ELSE /\ posts' = Append(posts, [author_username |-> session,
                                       hashtags |-> norm_tags(hashtags),
                                       created_at |-> stamp])
            /\ post_liked_by' = Append(post_liked_by, <<>>)
            /\ now' = stamp
            /\ resp' = [op |-> "new_post", status |-> 302, to |-> "home"]
    /\ UNCHANGED <<following, comments, has_comment, has_reply, comment_liked_by,
                   notifications, inflight, messages>>

-----------------------------------------------------------------------------
\* home: the feed.

\* list.sort(key=created_at, reverse=True): stable, descending
RECURSIVE InsertDesc(_, _)
InsertDesc(sorted, p) ==
    IF sorted = <<>> THEN <<p>>
    ELSE IF posts[Head(sorted)].created_at >= posts[p].created_at
         THEN <<Head(sorted)>> \o InsertDesc(Tail(sorted), p)
         ELSE <<p>> \o sorted

RECURSIVE SortDesc(_)
SortDesc(ps) ==
    IF ps = <<>> THEN <<>>
    ELSE InsertDesc(SortDesc(SubSeq(ps, 1, Len(ps) - 1)), ps[Len(ps)])

\* the sort left out: the posts in store order
all_posts_unsorted == [i \in DOMAIN posts |-> i]

\* all_posts = list(Post.nodes.all()), sorted (uids)
all_posts == SortDesc([i \in DOMAIN posts |-> i])

my_posts(all, username) == Filter(all, LAMBDA p : posts[p].author_username = username)

my_interests(mine) ==
    UNION {{Lower(tag) : tag \in Range(posts[p].hashtags)} : p \in Range(mine)}

feed_following(all, following_set) ==
    Filter(all, LAMBDA p : posts[p].author_username \in following_set)

tag_match(p, interests) == \E tag \in Range(posts[p].hashtags) : Lower(tag) \in interests

\* the "id(p) not in picked" test left out
feed_interests_unpicked(all, picked, interests) ==
    SelectSeq(all, LAMBDA p : \E tag \in Range(posts[p].hashtags) : tag \in interests)

feed_interests(all, picked, interests) ==
    Filter(all, LAMBDA p : p \notin picked /\ tag_match(p, interests))

feed_latest(all, picked) == Filter(all, LAMBDA p : p \notin picked)

\* the interest matches put first
join_feed_interests_first(following_part, interests_part, latest_part) ==
    interests_part \o following_part \o latest_part

\* feed = feed_following + feed_interests + feed_latest
join_feed(following_part, interests_part, latest_part) ==
    following_part \o interests_part \o latest_part

\* the filter on the author left out
drop_own_none(feed, username) == feed

\* "Do not show my own posts in home feed"
drop_own(feed, username) == Filter(feed, LAMBDA p : posts[p].author_username # username)

\* "limit initial feed"
limit_feed(feed) == Take(feed, FEED_LIMIT)

\* the feed cut to 20 before the viewer's own posts are removed
shown_feed_cut_first(feed, username) ==
    SelectSeq(Take(feed, FEED_LIMIT), LAMBDA p : posts[p].author_username # username)

\* the two statements that turn the joined lists into the feed shown
shown_feed(feed, username) == limit_feed(drop_own(feed, username))

\* _serialize_post_card
serialize_post_card(p, following_set, me_username) ==
    [uid |-> p,
     author_username |-> posts[p].author_username,
     likes_count |-> safe_rel_count(post_liked_by[p]),
     comments_count |-> Cardinality({e \in has_comment : e[1] = p}),
     author_followed |-> posts[p].author_username \in following_set,
     is_author_me |-> posts[p].author_username = me_username]

\* home; its locals are bound one after the other, as the code assigns them
Home(session) ==
    /\ IF session = Anonymous \/ get_user_by_username(session) = "None"
       THEN resp' = [op |-> "home", status |-> 302, to |-> "login"]
       ELSE \E all \in {all_posts}, following_set \in {following_usernames(session)} :
            \E interests \in {my_interests(my_posts(all, session))},
               following_part \in {feed_following(all, following_set)} :
            \E interests_part \in {feed_interests(all, Range(following_part), interests)} :
            \E latest_part \in {feed_latest(all, Range(following_part)
                                                     \cup Range(interests_part))} :
            \E feed \in {shown_feed(join_feed(following_part, interests_part, latest_part),
                                    session)} :
               resp' = [op |-> "home", status |-> 200, viewer |-> session,
                        feed_following |-> following_part,
                        feed_interests |-> interests_part,
                        feed_latest |-> latest_part,
                        feed |-> feed,
                        posts |-> [i \in DOMAIN feed |->
                                     serialize_post_card(feed[i], following_set, session)]]
    /\ UNCHANGED <<posts, following, post_liked_by, comments, has_comment, has_reply,
                   comment_liked_by, notifications, now, inflight, messages>>

-----------------------------------------------------------------------------
\* Notification(...).save() inside try/except: the node is appended, or the write
\* raised and the handler goes on.

\* recipient and actor exchanged
Notification_swapped(to_username, from_username, type, target_uid, element_type, stamp) ==
    [to_username |-> from_username, from_username |-> to_username, type |-> type,
     target_uid |-> target_uid, element_type |-> element_type,
     seen |-> FALSE, created_at |-> stamp]

Notification(to_username, from_username, type, target_uid, element_type, stamp) ==
    [to_username |-> to_username, from_username |-> from_username, type |-> type,
     target_uid |-> target_uid, element_type |-> element_type,
     seen |-> FALSE, created_at |-> stamp]

\* the write tried again until it succeeds
save_notification_retried(saved, n) == Append(notifications, n)

\* Notification(...).save() inside try/except: appended, or lost when the write fails
save_notification(saved, n) == IF saved THEN Append(notifications, n) ELSE notifications

\* _login_required
login_required(session) == session = Anonymous

\* the author is told of every like, comment and reply, the actor's own included
should_notify_always(author_username, actor) == TRUE

\* "create notification to post author (if not self)"
should_notify(author_username, actor) == author_username # actor

-----------------------------------------------------------------------------
\* follow_toggle

\* the test for following oneself left out
follow_refused_unless_self(me, target) == me = "None" \/ target = "None"

\* if not me or not target or me.username == target.username
follow_refused(me, target) == me = "None" \/ target = "None" \/ me = target

FollowToggle(session, method, username, stamp, saved) ==
    LET me == get_user_by_username(session)
        target == get_user_by_username(username)
    IN
    /\ IF login_required(session)
       THEN /\ resp' = [op |-> "follow_toggle", status |-> 302, to |-> "login"]
            /\ UNCHANGED <<following, notifications, now>>
       ELSE IF method # "POST"
       THEN /\ resp' = [op |-> "follow_toggle", status |-> 405]
            /\ UNCHANGED <<following, notifications, now>>
       ELSE IF follow_refused(me, target)
       THEN /\ resp' = [op |-> "follow_toggle", status |-> 400]
            /\ UNCHANGED <<following, notifications, now>>
       ELSE IF username \in following_usernames(me)
       THEN /\ following' = [following EXCEPT ![me] = disconnect(@, target)]
            /\ resp' = [op |-> "follow_toggle", status |-> 200, me |-> me,
                        target |-> target, following |-> FALSE]
            /\ UNCHANGED <<notifications, now>>
       ELSE /\ following' = [following EXCEPT ![me] = connect(@, target)]
            /\ notifications' = save_notification(saved,
                   Notification(target, me, "follow", me, "account", stamp))
            /\ now' = IF saved THEN stamp ELSE now
            /\ resp' = [op |-> "follow_toggle", status |-> 200, me |-> me,
                        target |-> target, following |-> TRUE]
    /\ UNCHANGED <<posts, post_liked_by, comments, has_comment, has_reply,
                   comment_liked_by, inflight, messages>>

-----------------------------------------------------------------------------
\* post_like_toggle, comment_like_toggle

PostLikeToggle(session, method, post_uid, stamp, saved) ==
    LET user == get_user_by_username(session)
    IN
    /\ IF login_required(session)
       THEN /\ resp' = [op |-> "post_like_toggle", status |-> 302, to |-> "login"]
            /\ UNCHANGED <<post_liked_by, notifications, now>>
       ELSE IF method # "POST"
       THEN /\ resp' = [op |-> "post_like_toggle", status |-> 405]
            /\ UNCHANGED <<post_liked_by, notifications, now>>
       ELSE IF user = "None"
       THEN /\ resp' = [op |-> "post_like_toggle", status |-> 403]
            /\ UNCHANGED <<post_liked_by, notifications, now>>
       ELSE IF ~PostExists(post_uid)
       THEN /\ resp' = [op |-> "post_like_toggle", status |-> 404]
            /\ UNCHANGED <<post_liked_by, notifications, now>>
       ELSE IF user \in Range(post_liked_by[post_uid])
       THEN /\ post_liked_by' = [post_liked_by EXCEPT ![post_uid] = disconnect(@, user)]
            /\ resp' = [op |-> "post_like_toggle", status |-> 200, user |-> user,
                        target |-> post_uid, liked_users |-> post_liked_by[post_uid],
                        liked |-> FALSE,
                        likes |-> safe_rel_count(post_liked_by'[post_uid])]
            /\ UNCHANGED <<notifications, now>>
       ELSE LET notify == should_notify(posts[post_uid].author_username, user)
            IN  /\ post_liked_by' = [post_liked_by EXCEPT ![post_uid] = connect(@, user)]
                /\ notifications' =
                       IF notify
                       THEN save_notification(saved,
                                Notification(posts[post_uid].author_username, user,
                                             "like_post", post_uid, "post", stamp))
                       ELSE notifications
                /\ now' = IF notify /\ saved THEN stamp ELSE now
                /\ resp' = [op |-> "post_like_toggle", status |-> 200, user |-> user,
                            target |-> post_uid, liked_users |-> post_liked_by[post_uid],
                            liked |-> TRUE,
                            likes |-> safe_rel_count(post_liked_by'[post_uid])]
    /\ UNCHANGED <<posts, following, comments, has_comment, has_reply,
                   comment_liked_by, inflight, messages>>

\* Comment.nodes.get(uid=comment_uid) succeeds
CommentExists(comment_uid) == comment_uid \in DOMAIN comments

CommentLikeToggle(session, method, comment_uid, stamp, saved) ==
    LET user == get_user_by_username(session)
    IN
    /\ IF login_required(session)
       THEN /\ resp' = [op |-> "comment_like_toggle", status |-> 302, to |-> "login"]
            /\ UNCHANGED <<comment_liked_by, notifications, now>>
       ELSE IF method # "POST"
       THEN /\ resp' = [op |-> "comment_like_toggle", status |-> 405]
            /\ UNCHANGED <<comment_liked_by, notifications, now>>
       ELSE IF ~CommentExists(comment_uid)
       THEN /\ resp' = [op |-> "comment_like_toggle", status |-> 404]
            /\ UNCHANGED <<comment_liked_by, notifications, now>>
       ELSE IF user = "None"
       THEN /\ resp' = [op |-> "comment_like_toggle", status |-> 403]
            /\ UNCHANGED <<comment_liked_by, notifications, now>>
       ELSE IF user \in Range(comment_liked_by[comment_uid])
       THEN /\ comment_liked_by' =
                   [comment_liked_by EXCEPT ![comment_uid] = disconnect(@, user)]
            /\ resp' = [op |-> "comment_like_toggle", status |-> 200, user |-> user,
                        target |-> comment_uid,
                        liked_users |-> comment_liked_by[comment_uid], liked |-> FALSE,
                        likes |-> safe_rel_count(comment_liked_by'[comment_uid])]
            /\ UNCHANGED <<notifications, now>>
       ELSE LET notify == should_notify(comments[comment_uid].author_username, user)
            IN  /\ comment_liked_by' =
                       [comment_liked_by EXCEPT ![comment_uid] = connect(@, user)]
                /\ notifications' =
                       IF notify
                       THEN save_notification(saved,
                                Notification(comments[comment_uid].author_username, user,
                                             "like_comment", comment_uid, "comment", stamp))
                       ELSE notifications
                /\ now' = IF notify /\ saved THEN stamp ELSE now
                /\ resp' = [op |-> "comment_like_toggle", status |-> 200, user |-> user,
                            target |-> comment_uid,
                            liked_users |-> comment_liked_by[comment_uid], liked |-> TRUE,
                            likes |-> safe_rel_count(comment_liked_by'[comment_uid])]
    /\ UNCHANGED <<posts, following, post_liked_by, comments, has_comment, has_reply,
                   inflight, messages>>

-----------------------------------------------------------------------------
\* post_add_comment, post_add_reply

\* text[:500] when len(text) > 500
\* the text kept whole
clamp_text_whole(text) == text

\* text[:500]
clamp_text(text) == IF Len(text) > COMMENT_MAX THEN SubSeq(text, 1, COMMENT_MAX) ELSE text

Comment(text, author_username, stamp) ==
    [text |-> text, author_username |-> author_username, created_at |-> stamp]

\* the checks of post_add_comment before it writes: the status it answers
add_comment_status(session, method, post_uid, text) ==
    IF login_required(session) THEN 302
    ELSE IF method # "POST" THEN 405
    ELSE IF ~PostExists(post_uid) THEN 404
    ELSE IF get_user_by_username(session) = "None" THEN 403
    ELSE IF text = <<>> THEN 400
    ELSE 200

\* the checks of post_add_reply before it writes
add_reply_status(session, method, post_uid, comment_uid, text) ==
    IF login_required(session) THEN 302
    ELSE IF method # "POST" THEN 405
    ELSE IF ~PostExists(post_uid) THEN 404
    ELSE IF ~CommentExists(comment_uid) THEN 404
    ELSE IF get_user_by_username(session) = "None" THEN 403
    ELSE IF text = <<>> THEN 400
    ELSE 200

AddComment(session, method, post_uid, raw_text, stamp, saved) ==
    LET me == get_user_by_username(session)
        text == Strip(raw_text)
        status == add_comment_status(session, method, post_uid, text)
        c == Len(comments) + 1
    IN
    /\ IF status # 200
       THEN /\ resp' = [op |-> "post_add_comment", status |-> status]
            /\ UNCHANGED <<comments, has_comment, comment_liked_by, notifications, now>>
       ELSE LET notify == should_notify(posts[post_uid].author_username, me)
            IN  /\ comments' = Append(comments, Comment(clamp_text(text), me, stamp))
                /\ comment_liked_by' = Append(comment_liked_by, <<>>)
                /\ has_comment' = has_comment \cup {<<post_uid, c>>}
                /\ notifications' =
                       IF notify
                       THEN save_notification(saved,
                                Notification(posts[post_uid].author_username, me,
                                             "comment_post", c, "comment", stamp))
                       ELSE notifications
                /\ now' = stamp
                /\ resp' = [op |-> "post_add_comment", status |-> 200, me |-> me,
                            post |-> post_uid, comment |-> c, ok |-> TRUE]
    /\ UNCHANGED <<posts, following, post_liked_by, has_reply, inflight, messages>>

AddReply(session, method, post_uid, comment_uid, raw_text, stamp, saved) ==
    LET me == get_user_by_username(session)
        text == Strip(raw_text)
        status == add_reply_status(session, method, post_uid, comment_uid, text)
        rep == Len(comments) + 1
    IN
    /\ IF status # 200
       THEN /\ resp' = [op |-> "post_add_reply", status |-> status]
            /\ UNCHANGED <<comments, has_reply, comment_liked_by, notifications, now>>
       ELSE LET target_user == comments[comment_uid].author_username
                notify == should_notify(target_user, me)
            IN  /\ comments' = Append(comments, Comment(clamp_text(text), me, stamp))
                /\ comment_liked_by' = Append(comment_liked_by, <<>>)
                /\ has_reply' = has_reply \cup {<<comment_uid, rep>>}
                /\ notifications' =
                       IF notify
                       THEN save_notification(saved,
                                Notification(target_user, me, "reply_comment", rep,
                                             "comment", stamp))
                       ELSE notifications
                /\ now' = stamp
                /\ resp' = [op |-> "post_add_reply", status |-> 200, me |-> me,
                            post |-> post_uid, parent |-> comment_uid, comment |-> rep,
                            ok |-> TRUE]
    /\ UNCHANGED <<posts, following, post_liked_by, has_comment, inflight, messages>>

-----------------------------------------------------------------------------
\* post_add_comment and post_add_reply statement by statement: the Comment node
\* is saved, then connected to its post or parent, then the author is notified
\* and the response sent.  Each of the three is one write to the store, and other
\* requests run between them.

\* a started request: what the handler holds after Comment(...).save()
Started(kind, me, post_uid, parent_uid, comment_uid) ==
    [kind |-> kind, me |-> me, post |-> post_uid, parent |-> parent_uid,
     comment |-> comment_uid, pc |-> "connect"]

\* post_add_comment up to c = Comment(...).save()
StartComment(session, method, post_uid, raw_text, stamp) ==
    LET me == get_user_by_username(session)
        text == Strip(raw_text)
        status == add_comment_status(session, method, post_uid, text)
        c == Len(comments) + 1
    IN
    /\ IF status # 200
       THEN /\ resp' = [op |-> "post_add_comment", status |-> status]
            /\ UNCHANGED <<comments, comment_liked_by, now, inflight>>
       ELSE /\ comments' = Append(comments, Comment(clamp_text(text), me, stamp))
            /\ comment_liked_by' = Append(comment_liked_by, <<>>)
            /\ now' = stamp
            /\ inflight' = inflight \cup {Started("comment", me, post_uid, 0, c)}
            /\ UNCHANGED resp
    /\ UNCHANGED <<posts, following, post_liked_by, has_comment, has_reply, notifications, messages>>

\* post_add_reply up to rep = Comment(...).save()
StartReply(session, method, post_uid, comment_uid, raw_text, stamp) ==
    LET me == get_user_by_username(session)
        text == Strip(raw_text)
        status == add_reply_status(session, method, post_uid, comment_uid, text)
        rep == Len(comments) + 1
    IN
    /\ IF status # 200
       THEN /\ resp' = [op |-> "post_add_reply", status |-> status]
            /\ UNCHANGED <<comments, comment_liked_by, now, inflight>>
       ELSE /\ comments' = Append(comments, Comment(clamp_text(text), me, stamp))
            /\ comment_liked_by' = Append(comment_liked_by, <<>>)
            /\ now' = stamp
            /\ inflight' = inflight \cup {Started("reply", me, post_uid, comment_uid, rep)}
            /\ UNCHANGED resp
    /\ UNCHANGED <<posts, following, post_liked_by, has_comment, has_reply, notifications, messages>>

OpOf(r) == IF r.kind = "comment" THEN "post_add_comment" ELSE "post_add_reply"

\* post.comments.connect(c) / parent.replies.connect(rep): the edge is written, or
\* the write raises and the request ends with a server error
ConnectStep(r, written) ==
    /\ r \in inflight /\ r.pc = "connect"
    /\ IF written
       THEN /\ IF r.kind = "comment"
               THEN /\ has_comment' = has_comment \cup {<<r.post, r.comment>>}
                    /\ UNCHANGED has_reply
               ELSE /\ has_reply' = has_reply \cup {<<r.parent, r.comment>>}
                    /\ UNCHANGED has_comment
            /\ inflight' = (inflight \ {r}) \cup {[r EXCEPT !.pc = "notify"]}
            /\ UNCHANGED resp
       ELSE /\ inflight' = inflight \ {r}
            /\ resp' = [op |-> OpOf(r), status |-> 500]
            /\ UNCHANGED <<has_comment, has_reply>>
    /\ UNCHANGED <<posts, following, post_liked_by, comments, comment_liked_by,
                   notifications, now, messages>>

\* the notification of the author and the response {"ok": true}
NotifyStep(r, stamp, saved) ==
    LET author == IF r.kind = "comment" THEN posts[r.post].author_username
                  ELSE comments[r.parent].author_username
        notify == should_notify(author, r.me)
    IN
    /\ r \in inflight /\ r.pc = "notify"
    /\ notifications' =
           IF notify
           THEN save_notification(saved,
                    Notification(author, r.me,
                                 IF r.kind = "comment" THEN "comment_post" ELSE "reply_comment",
                                 r.comment, "comment", stamp))
           ELSE notifications
    /\ now' = IF notify /\ saved THEN stamp ELSE now
    /\ inflight' = inflight \ {r}
    /\ resp' = IF r.kind = "comment"
               THEN [op |-> "post_add_comment", status |-> 200, me |-> r.me,
                     post |-> r.post, comment |-> r.comment, ok |-> TRUE]
               ELSE [op |-> "post_add_reply", status |-> 200, me |-> r.me,
                     post |-> r.post, parent |-> r.parent, comment |-> r.comment,
                     ok |-> TRUE]
    /\ UNCHANGED <<posts, following, post_liked_by, comments, has_comment, has_reply,
                   comment_liked_by, messages>>

-----------------------------------------------------------------------------
\* Direct messages: chat_send, chat_messages, chat_view.

\* text[:2000]
clamp_message(text) == IF Len(text) > MESSAGE_MAX THEN SubSeq(text, 1, MESSAGE_MAX) ELSE text

\* Message(...): text and image_url are stored as None when empty and read back
\* as "" (m.text or ""), so the empty string stands for both
Message(sender_username, receiver_username, text, image_url, stamp) ==
    [sender_username |-> sender_username, receiver_username |-> receiver_username,
     text |-> text, image_url |-> image_url, seen |-> FALSE, created_at |-> stamp]

\* _serialize_message of the message with uid m
serialize_message(store, m, me_username) ==
    [uid |-> m,
     sender_username |-> store[m].sender_username,
     receiver_username |-> store[m].receiver_username,
     text |-> store[m].text,
     image_url |-> store[m].image_url,
     created_at |-> store[m].created_at,
     is_me |-> (store[m].sender_username = me_username)]

\* what an upload can be: no file in the request, a file the storage saves, a
\* file the storage fails to save
Uploads == {"none", "stored", "failed"}

\* settings.MEDIA_URL + saved, or '' without a file or when saving raised
image_url_of(upload, me_username, username) ==
    IF upload = "stored" THEN <<"chat/", me_username, "_to_", username>> ELSE <<>>

\* a message without text refused, with or without image
chat_send_status_text_required(session, method, username, text, image_url) ==
    IF login_required(session) THEN 302
    ELSE IF method # "POST" THEN 405
    ELSE IF get_user_by_username(session) = "None" THEN 403
    ELSE IF get_user_by_username(username) = "None" THEN 404
    ELSE IF text = <<>> THEN 400
    ELSE 200

chat_send_status(session, method, username, text, image_url) ==
    IF login_required(session) THEN 302
    ELSE IF method # "POST" THEN 405
    ELSE IF get_user_by_username(session) = "None" THEN 403
    ELSE IF get_user_by_username(username) = "None" THEN 404
    ELSE IF text = <<>> /\ image_url = <<>> THEN 400
    ELSE 200

ChatSend(session, method, username, raw_text, upload, stamp) ==
    LET text == clamp_message(Strip(raw_text))
        image_url == image_url_of(upload, session, username)
        status == chat_send_status(session, method, username, text, image_url)
        m == Len(messages) + 1
    IN
    /\ IF status # 200
       THEN /\ resp' = [op |-> "chat_send", status |-> status]
            /\ UNCHANGED <<messages, now>>
       ELSE /\ messages' = Append(messages, Message(session, username, text, image_url, stamp))
            /\ now' = stamp
            /\ resp' = [op |-> "chat_send", status |-> 200, me |-> session,
                        message |-> serialize_message(messages', m, session)]
    /\ UNCHANGED <<posts, following, post_liked_by, comments, has_comment, has_reply,
                   comment_liked_by, notifications, inflight>>

\* Message.nodes.filter(sender_username=..., receiver_username=...): uids in store order
messages_between(sender_username, receiver_username) ==
    SelectSeq([i \in DOMAIN messages |-> i],
              LAMBDA i : /\ messages[i].sender_username = sender_username
                         /\ messages[i].receiver_username = receiver_username)

\* list.sort(key=created_at): stable, ascending
RECURSIVE InsertAsc(_, _)
InsertAsc(sorted, m) ==
    IF sorted = <<>> THEN <<m>>
    ELSE IF messages[m].created_at < messages[Head(sorted)].created_at
    THEN <<m>> \o sorted
    ELSE <<Head(sorted)>> \o InsertAsc(Tail(sorted), m)

RECURSIVE SortAsc(_)
SortAsc(ms) ==
    IF ms = <<>> THEN <<>>
    ELSE InsertAsc(SortAsc(SubSeq(ms, 1, Len(ms) - 1)), ms[Len(ms)])

\* all_msgs = a + b, sorted
thread(me_username, username) ==
    SortAsc(messages_between(me_username, username)
            \o messages_between(username, me_username))

\* every fetched message marked, whoever it is addressed to
mark_seen_whoever(all_msgs, me_username) ==
    [i \in DOMAIN messages |->
        IF i \in Range(all_msgs) THEN [messages[i] EXCEPT !.seen = TRUE] ELSE messages[i]]

\* "Mark messages to me as seen": the store after the loop over all_msgs
mark_seen(all_msgs, me_username) ==
    [i \in DOMAIN messages |->
        IF /\ i \in Range(all_msgs)
           /\ messages[i].receiver_username = me_username
           /\ ~messages[i].seen
        THEN [messages[i] EXCEPT !.seen = TRUE]
        ELSE messages[i]]

ChatMessages(session, username) ==
    /\ IF login_required(session)
       THEN /\ resp' = [op |-> "chat_messages", status |-> 302]
            /\ UNCHANGED messages
       ELSE IF get_user_by_username(username) = "None"
       THEN /\ resp' = [op |-> "chat_messages", status |-> 404]
            /\ UNCHANGED messages
       ELSE \E all_msgs \in {thread(session, username)} :
            /\ messages' = mark_seen(all_msgs, session)
            /\ resp' = [op |-> "chat_messages", status |-> 200, me |-> session,
                        other |-> username, all_msgs |-> all_msgs,
                        messages |-> [k \in DOMAIN all_msgs |->
                                         serialize_message(messages', all_msgs[k], session)]]
    /\ UNCHANGED <<posts, following, post_liked_by, comments, has_comment, has_reply,
                   comment_liked_by, notifications, now, inflight>>

\* _ago: the age of a timestamp, in seconds, as the sidebar prints it
ago(seconds) ==
    LET minutes == seconds \div 60
        hours == minutes \div 60
        days == hours \div 24
    IN  IF days > 0 THEN <<days, "d">>
        ELSE IF hours > 0 THEN <<hours, "h">>
        ELSE <<IF minutes > 1 THEN minutes ELSE 1, "m">>

\* Message.nodes.filter(sender_username=..., receiver_username=..., seen=False)
unread_from(sender_username, me_username) ==
    {i \in DOMAIN messages : /\ messages[i].sender_username = sender_username
                             /\ messages[i].receiver_username = me_username
                             /\ ~messages[i].seen}

\* one entry of following_ctx
chat_entry(username, me_username) ==
    \* a set-valued local is bound once
    LET unread == unread_from(username, me_username)
    IN  [username |-> username,
         unread_count |-> Cardinality(unread),
         last_unread_ago |->
             IF unread = {} THEN <<>>
             ELSE ago(now - messages[CHOOSE i \in unread :
                                        \A j \in unread :
                                            messages[j].created_at <= messages[i].created_at
                                     ].created_at)]

\* the entries of the followed users only
chat_partners_none(me_username) == {}

\* partners: the other side of every message sent or received
chat_partners(me_username) ==
    {messages[i].receiver_username :
        i \in {j \in DOMAIN messages : /\ messages[j].sender_username = me_username
                                       /\ messages[j].receiver_username # me_username}}
    \cup
    {messages[i].sender_username :
        i \in {j \in DOMAIN messages : /\ messages[j].receiver_username = me_username
                                       /\ messages[j].sender_username # me_username}}

\* the orders in which a Python set can be iterated
Orders(S) == {f \in [1..Cardinality(S) -> S] : Range(f) = S}

ChatView(session, sel_username) ==
    /\ IF login_required(session)
       THEN resp' = [op |-> "chat_view", status |-> 302]
       ELSE \E following_users \in {IF get_user_by_username(session) = "None" THEN <<>>
                                    ELSE following[session]} :
            \E extra \in Orders(chat_partners(session) \ Range(following_users)) :
                resp' = [op |-> "chat_view", status |-> 200, me |-> session,
                         following |->
                             [k \in DOMAIN following_users |->
                                 chat_entry(following_users[k], session)]
                             \o [k \in DOMAIN extra |-> chat_entry(extra[k], session)],
                         selected_username |->
                             IF sel_username # "" /\ get_user_by_username(sel_username) # "None"
                             THEN sel_username ELSE ""]
    /\ UNCHANGED <<posts, following, post_liked_by, comments, has_comment, has_reply,
                   comment_liked_by, notifications, messages, now, inflight>>

-----------------------------------------------------------------------------
\* _resolve_post_uid_for_comment: from a comment back to the post it hangs under.

None == 0               \* no post uid: the function's `return None`
Unending == -1          \* the while loop has gone round more often than there are comments

\* c.on_post.all(): the posts with a HAS_COMMENT edge to c
on_post(c) == {e[1] : e \in {x \in has_comment : x[2] = c}}

\* c.on_comment.all(): the comments with a HAS_REPLY edge to c
on_comment(c) == {e[1] : e \in {x \in has_reply : x[2] = c}}

\* the loop looks at the first parent only and gives up when it has no post
walk_parents_one_level(parents, fuel) ==
    IF parents = {} THEN {None}
    ELSE UNION {IF on_post(parent) # {} THEN on_post(parent) ELSE {None} :
                   parent \in parents}

\* while parents: parent = parents[0] ... parents = list(parent.on_comment.all())
\* The store fixes no order of the lists, so `parents[0]` and `posts[0]` are any
\* element: the value is the set of results the walk can give.
RECURSIVE walk_parents(_, _)
walk_parents(parents, fuel) ==
    IF parents = {} THEN {None}
    ELSE IF fuel = 0 THEN {Unending}
    ELSE UNION {IF on_post(parent) # {} THEN on_post(parent)
                ELSE walk_parents(on_comment(parent), fuel - 1) :
                   parent \in parents}

resolve_post_uid_for_comment(comment_uid) ==
    IF ~CommentExists(comment_uid) THEN {None}
    ELSE IF on_post(comment_uid) # {} THEN on_post(comment_uid)
    ELSE walk_parents(on_comment(comment_uid), Len(comments))

\* one call of the function
Resolve(comment_uid) ==
    /\ \E post_uid \in resolve_post_uid_for_comment(comment_uid) :
           resp' = [op |-> "resolve_post_uid_for_comment", status |-> 200,
                    comment |-> comment_uid, post_uid |-> post_uid]
    /\ UNCHANGED <<posts, following, post_liked_by, comments, has_comment, has_reply,
                   comment_liked_by, notifications, messages, now, inflight>>

-----------------------------------------------------------------------------
\* post_comments_json

\* list(rel.all()) of a set of comment uids. The store fixes no order; the model
\* lists them oldest first, which is the order of their uids.
RECURSIVE listed(_)
listed(uids) ==
    IF uids = {} THEN <<>>
    ELSE LET first == CHOOSE c \in uids : \A d \in uids : c <= d
         IN  <<first>> \o listed(uids \ {first})

\* post.comments.all(): the comments the post has a HAS_COMMENT edge to
comments_of(post_uid) == {e[2] : e \in {x \in has_comment : x[1] = post_uid}}

\* c.replies.all(): the comments c has a HAS_REPLY edge to
replies_of(c) == {e[2] : e \in {x \in has_reply : x[1] = c}}

\* the replies left out of every node
RECURSIVE serialize_comment_flat(_)
serialize_comment_flat(c) ==
    [uid |-> c, author_username |-> comments[c].author_username,
     text |-> comments[c].text,
     likes |-> safe_rel_count(comment_liked_by[c]),
     created_at |-> comments[c].created_at,
     replies |-> <<>>]

\* serialize_comment, the inner function of post_comments_json
RECURSIVE serialize_comment(_)
serialize_comment(c) ==
    [uid |-> c, author_username |-> comments[c].author_username,
     text |-> comments[c].text,
     likes |-> safe_rel_count(comment_liked_by[c]),
     created_at |-> comments[c].created_at,
     replies |-> LET replies == listed(replies_of(c))
                 IN  <<>> \o [i \in DOMAIN replies |-> serialize_comment(replies[i])]]

PostComments(session, post_uid) ==
    /\ IF login_required(session)
       THEN resp' = [op |-> "post_comments_json", status |-> 302, to |-> "login"]
       ELSE IF ~PostExists(post_uid)
       THEN resp' = [op |-> "post_comments_json", status |-> 404]
       ELSE \E top \in {listed(comments_of(post_uid))} :
                resp' = [op |-> "post_comments_json", status |-> 200,
                         post |-> post_uid,
                         comments |-> <<>> \o [i \in DOMAIN top |->
                                                  serialize_comment(top[i])]]
    /\ UNCHANGED <<posts, following, post_liked_by, comments, has_comment, has_reply,
                   comment_liked_by, notifications, messages, now, inflight>>

-----------------------------------------------------------------------------
\* notifications_view and the unread counters of context_processors.notifications.

\* Notification.nodes.filter(to_username=me_username): uids in store order
notifs_to(me_username) ==
    SelectSeq([i \in DOMAIN notifications |-> i],
              LAMBDA i : notifications[i].to_username = me_username)

\* all_notifs.sort(key=created_at, reverse=True): stable, descending
RECURSIVE InsertNewest(_, _)
InsertNewest(sorted, n) ==
    IF sorted = <<>> THEN <<n>>
    ELSE IF notifications[Head(sorted)].created_at >= notifications[n].created_at
         THEN <<Head(sorted)>> \o InsertNewest(Tail(sorted), n)
         ELSE <<n>> \o sorted

RECURSIVE SortNewest(_)
SortNewest(ns) ==
    IF ns = <<>> THEN <<>>
    ELSE InsertNewest(SortNewest(SubSeq(ns, 1, Len(ns) - 1)), ns[Len(ns)])

\* every notification of the store marked, collected or not
mark_notifs_seen_uncollected(all_notifs) ==
    [i \in DOMAIN notifications |-> [notifications[i] EXCEPT !.seen = TRUE]]

\* the list marked in the objects of the handler only, nothing saved
mark_notifs_seen_unsaved(all_notifs) == notifications

\* "mark as seen": the store after the loop over all_notifs
mark_notifs_seen(all_notifs) ==
    [i \in DOMAIN notifications |->
        IF i \in Range(all_notifs) /\ ~notifications[i].seen
        THEN [notifications[i] EXCEPT !.seen = TRUE]
        ELSE notifications[i]]

\* the post uids build(n) can derive for notification n
post_uid_of(n) ==
    IF n.type = "follow" THEN {None}
    ELSE IF n.type = "like_post" /\ n.element_type = "post" THEN {n.target_uid}
    ELSE resolve_post_uid_for_comment(n.target_uid)

\* build(n), with the post uid derived for it
build(n, uid, post_uid, me_following) ==
    [uid |-> uid, type |-> n.type, from_username |-> n.from_username,
     created_at |-> n.created_at, seen |-> TRUE,
     target_uid |-> n.target_uid, element_type |-> n.element_type,
     icon |-> CASE n.type = "follow" -> "person"
               [] n.type \in {"like_post", "like_comment"} -> "heart"
               [] n.type \in {"comment_post", "reply_comment"} -> "comment"
               [] OTHER -> "bell",
     cta |-> CASE n.type = "follow" -> "follow"
              [] n.type = "like_post" -> "view_post"
              [] n.type \in {"like_comment", "comment_post", "reply_comment"} -> "view_comment"
              [] OTHER -> "None",
     post_uid |-> post_uid,
     is_following |-> (n.type = "follow" /\ n.from_username \in me_following)]

\* notifications_unread_count of the context processor
notifications_unread_count(store, username) ==
    Cardinality({i \in DOMAIN store : store[i].to_username = username /\ ~store[i].seen})

\* messages_unread_count of the context processor
messages_unread_count(store, username) ==
    Cardinality({i \in DOMAIN store : store[i].receiver_username = username /\ ~store[i].seen})

NotificationsView(session) ==
    /\ IF login_required(session) \/ get_user_by_username(session) = "None"
       THEN /\ resp' = [op |-> "notifications_view", status |-> 302]
            /\ UNCHANGED notifications
       ELSE \E all_notifs \in {SortNewest(notifs_to(session))} :
            \E post_uids \in [DOMAIN all_notifs -> DOMAIN posts \cup {None, Unending}] :
            /\ \A k \in DOMAIN all_notifs :
                   post_uids[k] \in post_uid_of(notifications[all_notifs[k]])
            /\ notifications' = mark_notifs_seen(all_notifs)
            /\ resp' = [op |-> "notifications_view", status |-> 200, me |-> session,
                        all_notifs |-> all_notifs,
                        notifications |->
                            [k \in DOMAIN all_notifs |->
                                build(notifications[all_notifs[k]], all_notifs[k],
                                      post_uids[k], Range(following[session]))],
                        notifications_unread_count |->
                            notifications_unread_count(notifications', session),
                        messages_unread_count |->
                            messages_unread_count(messages, session)]
    /\ UNCHANGED <<posts, following, post_liked_by, comments, has_comment, has_reply,
                   comment_liked_by, messages, now, inflight>>

-----------------------------------------------------------------------------
\* chat_messages and notifications_view statement by statement: the handler
\* collects its list from the store, and later saves seen = True on the objects
\* it collected; other requests run in between.

\* a read in progress: what the handler holds after it built its list
Reading(kind, me, other, list) ==
    [kind |-> kind, me |-> me, other |-> other, list |-> list, pc |-> "mark"]

\* chat_messages up to all_msgs.sort(...)
FetchRead(session, username) ==
    /\ IF login_required(session)
       THEN /\ resp' = [op |-> "chat_messages", status |-> 302]
            /\ UNCHANGED inflight
       ELSE IF get_user_by_username(username) = "None"
       THEN /\ resp' = [op |-> "chat_messages", status |-> 404]
            /\ UNCHANGED inflight
       ELSE /\ inflight' = inflight \cup
                               {Reading("fetch", session, username, thread(session, username))}
            /\ UNCHANGED resp
    /\ UNCHANGED <<posts, following, post_liked_by, comments, has_comment, has_reply,
                   comment_liked_by, notifications, messages, now>>

\* chat_messages from "Mark messages to me as seen" to the response
FetchMark(r) ==
    /\ r \in inflight /\ r.kind = "fetch"
    /\ messages' = mark_seen(r.list, r.me)
    /\ inflight' = inflight \ {r}
    /\ resp' = [op |-> "chat_messages", status |-> 200, me |-> r.me,
                other |-> r.other, all_msgs |-> r.list,
                messages |-> [k \in DOMAIN r.list |->
                                 serialize_message(messages', r.list[k], r.me)]]
    /\ UNCHANGED <<posts, following, post_liked_by, comments, has_comment, has_reply,
                   comment_liked_by, notifications, now>>

\* notifications_view up to all_notifs.sort(...)
PageRead(session) ==
    /\ IF login_required(session) \/ get_user_by_username(session) = "None"
       THEN /\ resp' = [op |-> "notifications_view", status |-> 302]
            /\ UNCHANGED inflight
       ELSE /\ inflight' = inflight \cup
                               {Reading("page", session, session, SortNewest(notifs_to(session)))}
            /\ UNCHANGED resp
    /\ UNCHANGED <<posts, following, post_liked_by, comments, has_comment, has_reply,
                   comment_liked_by, notifications, messages, now>>

\* notifications_view from "mark as seen" to the rendered page
PageMark(r) ==
    /\ r \in inflight /\ r.kind = "page"
    /\ \E post_uids \in [DOMAIN r.list -> DOMAIN posts \cup {None, Unending}] :
           /\ \A k \in DOMAIN r.list :
                  post_uids[k] \in post_uid_of(notifications[r.list[k]])
           /\ notifications' = mark_notifs_seen(r.list)
           /\ resp' = [op |-> "notifications_view", status |-> 200, me |-> r.me,
                       all_notifs |-> r.list,
                       notifications |->
                           [k \in DOMAIN r.list |->
                               build(notifications[r.list[k]], r.list[k],
                                     post_uids[k], Range(following[r.me]))],
                       notifications_unread_count |->
                           notifications_unread_count(notifications', r.me),
                       messages_unread_count |-> messages_unread_count(messages, r.me)]
    /\ inflight' = inflight \ {r}
    /\ UNCHANGED <<posts, following, post_liked_by, comments, has_comment, has_reply,
                   comment_liked_by, messages, now>>

-----------------------------------------------------------------------------
\* The store after construction: no node but the registered users.

NoResponse == [op |-> "none", status |-> 0]

Init ==
    /\ posts = <<>>
    /\ following = [u \in Users |-> <<>>]
    /\ post_liked_by = <<>>
    /\ comments = <<>>
    /\ has_comment = {}
    /\ has_reply = {}
    /\ comment_liked_by = <<>>
    /\ notifications = <<>>
    /\ messages = <<>>
    /\ now = 0
    /\ inflight = {}
    /\ resp = NoResponse
    /\ handled = 0

\* What the requests of the model carry.
Titles == {<<>>, <<"a">>}
Texts == {<<" ">>, <<" ", "a">>}
PostUids == 1..(Len(posts) + 1)
CommentUids == 1..(Len(comments) + 1)

Request(A) == handled < MaxOps /\ handled' = handled + 1 /\ A

\* The social specification: every handler runs from its first line to its
\* response before the next request starts, every store write succeeds, and the
\* clock moves between two writes.
Next ==
    \/ \E s \in Sessions, t \in Titles :
           Request(NewPost(s, t, <<<<"#", "A">>>>, now + 1))
    \/ \E c \in Callers, u \in Names :
           Request(FollowToggle(c[1], c[2], u, now + 1, TRUE))
    \/ \E c \in Members, p \in PostUids :
           Request(PostLikeToggle(c[1], c[2], p, now + 1, TRUE))
    \/ \E c \in Members, k \in CommentUids :
           Request(CommentLikeToggle(c[1], c[2], k, now + 1, TRUE))
    \/ \E c \in Members, p \in PostUids, x \in Texts :
           Request(AddComment(c[1], c[2], p, x, now + 1, TRUE))
    \/ \E c \in Members, p \in PostUids, k \in CommentUids, x \in Texts :
           Request(AddReply(c[1], c[2], p, k, x, now + 1, TRUE))

Spec == Init /\ [][Next]_vars

-----------------------------------------------------------------------------
\* The feed specification: home over stores that hold a backlog of posts of
\* beto, the posts added on top of it, and the FOLLOWS edges of ana.

\* n posts of one author with the same hashtags, saved at times 1..n
Backlog(author, hashtags, n) ==
    [i \in 1..n |-> [author_username |-> author, hashtags |-> hashtags, created_at |-> i]]

BacklogSizes == {0, FEED_LIMIT - 1, FEED_LIMIT, MaxBacklog}

\* the FOLLOWS edges after the follow_toggle requests of one user
OneFollower(me) ==
    {[u \in Users |-> IF u = me THEN edges ELSE <<>>] :
        edges \in {e \in {<<>>} \cup {<<x>> : x \in Users} \cup (Users \X Users) :
                      me \notin Range(e) /\ Cardinality(Range(e)) = Len(e)}}

FeedHashtagLists == {<<<<" ">>>>, <<<<"#", "A">>>>, <<<<"a">>>>, <<<<" ", "B">>>>}

InitFeed ==
    /\ \E n \in BacklogSizes :
           /\ posts = Backlog("beto", <<<<"a">>>>, n)
           /\ post_liked_by = [i \in 1..n |-> <<>>]
           /\ now = n
    /\ following \in OneFollower("ana")
    /\ comments = <<>>
    /\ has_comment = {}
    /\ has_reply = {}
    /\ comment_liked_by = <<>>
    /\ notifications = <<>>
    /\ messages = <<>>
    /\ inflight = {}
    /\ resp = NoResponse
    /\ handled = 0

NextFeed ==
    \/ \E s \in Users, h \in FeedHashtagLists :
           /\ handled < MaxHead
           /\ handled' = handled + 1
           /\ NewPost(s, <<"a">>, h, now + 1)
    \/ \E s \in Sessions :
           /\ Home(s)
           /\ UNCHANGED handled

SpecFeed == InitFeed /\ [][NextFeed]_vars

-----------------------------------------------------------------------------
\* The step-level specification: comments and replies are written statement by
\* statement by requests that run side by side, and a connect may fail.

Begin(A) == handled < MaxSteps /\ handled' = handled + 1 /\ A

NextSteps ==
    \/ \E c \in Members :
           Begin(NewPost(c[1], <<"a">>, <<<<"#", "A">>>>, now + 1))
    \/ \E c \in Members, p \in PostUids, x \in Texts :
           Begin(StartComment(c[1], c[2], p, x, now + 1))
    \/ \E c \in Members, p \in PostUids, k \in CommentUids, x \in Texts :
           Begin(StartReply(c[1], c[2], p, k, x, now + 1))
    \/ \E r \in inflight, written \in BOOLEAN :
           ConnectStep(r, written) /\ UNCHANGED handled
    \/ \E r \in inflight :
           NotifyStep(r, now + 1, TRUE) /\ UNCHANGED handled

SpecSteps == Init /\ [][NextSteps]_vars

-----------------------------------------------------------------------------
\* post_like_toggle and follow_toggle, one store operation at a time

\* a toggle between its read of the edge set and its response
Toggling(kind, rid, me, post_uid, target, seen, pc) ==
    [kind |-> kind, rid |-> rid, me |-> me, post_uid |-> post_uid, target |-> target,
     seen |-> seen, pc |-> pc, liked |-> FALSE]

\* post_like_toggle up to liked_users = list(post.liked_by.all())
LikeRead(rid, session, method, post_uid) ==
    LET user == get_user_by_username(session)
    IN
    /\ IF login_required(session)
       THEN /\ resp' = [op |-> "post_like_toggle", status |-> 302, to |-> "login"]
            /\ UNCHANGED inflight
       ELSE IF method # "POST"
       THEN /\ resp' = [op |-> "post_like_toggle", status |-> 405]
            /\ UNCHANGED inflight
       ELSE IF user = "None"
       THEN /\ resp' = [op |-> "post_like_toggle", status |-> 403]
            /\ UNCHANGED inflight
       ELSE IF ~PostExists(post_uid)
       THEN /\ resp' = [op |-> "post_like_toggle", status |-> 404]
            /\ UNCHANGED inflight
       ELSE /\ inflight' = inflight \cup
                   {Toggling("like", rid, user, post_uid, "None",
                             user \in Range(post_liked_by[post_uid]), "write")}
            /\ UNCHANGED resp
    /\ UNCHANGED <<posts, following, post_liked_by, comments, has_comment, has_reply,
                   comment_liked_by, notifications, messages, now>>

\* post_like_toggle from the test of liked_users to the Notification
LikeWrite(r, stamp, saved) ==
    /\ r \in inflight /\ r.kind = "like" /\ r.pc = "write"
    /\ IF r.seen
       THEN /\ post_liked_by' = [post_liked_by EXCEPT ![r.post_uid] = disconnect(@, r.me)]
            /\ UNCHANGED <<notifications, now>>
       ELSE LET notify == should_notify(posts[r.post_uid].author_username, r.me)
            IN  /\ post_liked_by' = [post_liked_by EXCEPT ![r.post_uid] = connect(@, r.me)]
                /\ notifications' =
                       IF notify
                       THEN save_notification(saved,
                                Notification(posts[r.post_uid].author_username, r.me,
                                             "like_post", r.post_uid, "post", stamp))
                       ELSE notifications
                /\ now' = IF notify /\ saved THEN stamp ELSE now
    /\ inflight' = (inflight \ {r}) \cup {[r EXCEPT !.pc = "answer", !.liked = ~r.seen]}
    /\ UNCHANGED <<posts, following, comments, has_comment, has_reply,
                   comment_liked_by, messages, resp>>

\* the response of post_like_toggle, with _safe_rel_count(post, 'liked_by') read then
LikeAnswer(r) ==
    /\ r \in inflight /\ r.kind = "like" /\ r.pc = "answer"
    /\ inflight' = inflight \ {r}
    /\ resp' = [op |-> "post_like_toggle", status |-> 200, user |-> r.me,
                target |-> r.post_uid, liked |-> r.liked,
                likes |-> safe_rel_count(post_liked_by[r.post_uid])]
    /\ UNCHANGED <<posts, following, post_liked_by, comments, has_comment, has_reply,
                   comment_liked_by, notifications, messages, now>>

\* follow_toggle up to current = set(u.username for u in me.following.all())
FollowRead(rid, session, method, username) ==
    LET me == get_user_by_username(session)
        target == get_user_by_username(username)
    IN
    /\ IF login_required(session)
       THEN /\ resp' = [op |-> "follow_toggle", status |-> 302, to |-> "login"]
            /\ UNCHANGED inflight
       ELSE IF method # "POST"
       THEN /\ resp' = [op |-> "follow_toggle", status |-> 405]
            /\ UNCHANGED inflight
       ELSE IF follow_refused(me, target)
       THEN /\ resp' = [op |-> "follow_toggle", status |-> 400]
            /\ UNCHANGED inflight
       ELSE /\ inflight' = inflight \cup
                   {Toggling("follow", rid, me, None, target,
                             username \in following_usernames(me), "write")}
            /\ UNCHANGED resp
    /\ UNCHANGED <<posts, following, post_liked_by, comments, has_comment, has_reply,
                   comment_liked_by, notifications, messages, now>>

\* follow_toggle from the test of current to the response
FollowWrite(r, stamp, saved) ==
    /\ r \in inflight /\ r.kind = "follow" /\ r.pc = "write"
    /\ IF r.seen
       THEN /\ following' = [following EXCEPT ![r.me] = disconnect(@, r.target)]
            /\ UNCHANGED <<notifications, now>>
       ELSE /\ following' = [following EXCEPT ![r.me] = connect(@, r.target)]
            /\ notifications' = save_notification(saved,
                   Notification(r.target, r.me, "follow", r.me, "account", stamp))
            /\ now' = IF saved THEN stamp ELSE now
    /\ inflight' = inflight \ {r}
    /\ resp' = [op |-> "follow_toggle", status |-> 200, me |-> r.me,
                target |-> r.target, following |-> ~r.seen]
    /\ UNCHANGED <<posts, post_liked_by, comments, has_comment, has_reply,
                   comment_liked_by, messages>>

-----------------------------------------------------------------------------
\* The comment-tree specification: ana writes a post, comments and replies to
\* replies, statement by statement as in the step-level specification, and the
\* root post of any comment is looked up at any moment.

Grow(A) == handled < MaxTree /\ handled' = handled + 1 /\ A

NextTree ==
    \/ Grow(Len(posts) < 1 /\ NewPost("ana", <<"a">>, <<<<"a">>>>, now + 1))
    \/ \E p \in DOMAIN posts :
           Grow(StartComment("ana", "POST", p, <<"a">>, now + 1))
    \/ \E p \in DOMAIN posts, k \in DOMAIN comments :
           Grow(StartReply("ana", "POST", p, k, <<"a">>, now + 1))
    \/ \E r \in inflight, written \in BOOLEAN :
           ConnectStep(r, written) /\ UNCHANGED handled
    \/ \E r \in inflight :
           NotifyStep(r, now + 1, TRUE) /\ UNCHANGED handled
    \/ \E k \in CommentUids :
           Resolve(k) /\ UNCHANGED handled

SpecTree == Init /\ [][NextTree]_vars

-----------------------------------------------------------------------------
\* The chat specification: messages between ana and beto (and to oneself), thread
\* fetches, the chat sidebar, and the follow edges the sidebar starts from.  A
\* message is saved at the time of the one before it or later.

MaxChat == 3            \* requests that write

\* who writes to whom
ChatPairs == {<<"ana", "beto">>, <<"beto", "ana">>, <<"ana", "ana">>, <<"caro", "ana">>}

Chat(A) == handled < MaxChat /\ handled' = handled + 1 /\ A

NextChat ==
    \/ \E c \in ChatPairs, t \in {now, now + 1} :
           Chat(ChatSend(c[1], "POST", c[2], <<"a", " ">>, "none", t))
    \/ \E s \in {"ana", "beto", Anonymous}, u \in {"ana", "beto", Ghost} :
           ChatMessages(s, u) /\ UNCHANGED handled
    \/ \E s \in {"ana", Anonymous}, sel \in {"beto", Ghost} :
           ChatView(s, sel) /\ UNCHANGED handled
    \/ \E u \in {"beto", "caro"} :
           Chat(FollowToggle("ana", "POST", u, now + 1, TRUE))

SpecChat == Init /\ [][NextChat]_vars

-----------------------------------------------------------------------------
\* The text specification: comments, replies and messages with empty, short and
\* over-long texts, on a store where beto has a post and a comment on it.

MaxText == 2            \* requests handled

\* n times the character a
Long(n) == <<>> \o [i \in 1..n |-> "a"]

\* texts around a limit: blank, short, exactly at the limit, one over it, and
\* over it with blanks around
TextsAround(limit) ==
    {<<>>, <<" ">>, <<" ", "a", " ">>, Long(limit), Long(limit) \o <<"b">>,
     <<" ">> \o Long(limit) \o <<"b", " ">>}

InitText ==
    /\ posts = <<[author_username |-> "beto", hashtags |-> <<<<"a">>>>, created_at |-> 1]>>
    /\ post_liked_by = <<<<>>>>
    /\ comments = <<Comment(<<"a">>, "beto", 2)>>
    /\ comment_liked_by = <<<<>>>>
    /\ has_comment = {<<1, 1>>}
    /\ has_reply = {}
    /\ following = [u \in Users |-> <<>>]
    /\ notifications = <<>>
    /\ messages = <<>>
    /\ now = 2
    /\ inflight = {}
    /\ resp = NoResponse
    /\ handled = 0

Typed(A) == handled < MaxText /\ handled' = handled + 1 /\ A

NextText ==
    \/ \E x \in TextsAround(COMMENT_MAX) :
           Typed(AddComment("ana", "POST", 1, x, now + 1, TRUE))
    \/ \E k \in DOMAIN comments, x \in TextsAround(COMMENT_MAX) :
           Typed(AddReply("ana", "POST", 1, k, x, now + 1, TRUE))
    \/ \E u \in {"beto", Ghost}, x \in TextsAround(MESSAGE_MAX), f \in Uploads :
           Typed(ChatSend("ana", "POST", u, x, f, now + 1))

SpecText == InitText /\ [][NextText]_vars

-----------------------------------------------------------------------------
\* The notification specification: ana and beto follow, post, like and comment,
\* and anyone opens the notification page.

MaxNotif == 4           \* requests that write

NotifUsers == {"ana", "beto"}

Noted(A) == handled < MaxNotif /\ handled' = handled + 1 /\ A

NextNotif ==
    \/ Noted(Len(posts) < 1 /\ NewPost("ana", <<"a">>, <<<<"a">>>>, now + 1))
    \/ \E s \in NotifUsers, u \in NotifUsers, t \in {now, now + 1} :
           Noted(FollowToggle(s, "POST", u, t, TRUE))
    \/ \E s \in NotifUsers, p \in DOMAIN posts, t \in {now, now + 1} :
           Noted(PostLikeToggle(s, "POST", p, t, TRUE))
    \/ \E s \in NotifUsers, p \in DOMAIN posts :
           Noted(AddComment(s, "POST", p, <<"a">>, now + 1, TRUE))
    \/ \E s \in NotifUsers \cup {Ghost, Anonymous} :
           NotificationsView(s) /\ UNCHANGED handled

SpecNotif == Init /\ [][NextNotif]_vars

-----------------------------------------------------------------------------
\* The seen-flag specification: ana and beto write to each other and follow each
\* other while thread fetches and notification pages are in progress.

MaxSeen == 3            \* messages sent and follows toggled

Sent(A) == handled < MaxSeen /\ handled' = handled + 1 /\ A

\* a user has one read in progress at a time
Idle(session) == \A r \in inflight : r.me # session

NextSeen ==
    \/ \E c \in {<<"ana", "beto">>, <<"beto", "ana">>} :
           Sent(ChatSend(c[1], "POST", c[2], <<"a">>, "none", now + 1))
    \/ Sent(FollowToggle("ana", "POST", "beto", now + 1, TRUE))
    \/ \E c \in {<<"ana", "beto">>, <<"beto", "ana">>, <<Anonymous, "ana">>} :
           /\ Idle(c[1])
           /\ FetchRead(c[1], c[2])
           /\ UNCHANGED handled
    \/ \E r \in inflight :
           FetchMark(r) /\ UNCHANGED handled
    \/ \E s \in {"beto", Ghost} :
           /\ Idle(s)
           /\ PageRead(s)
           /\ UNCHANGED handled
    \/ \E r \in inflight :
           PageMark(r) /\ UNCHANGED handled

SpecSeen == Init /\ [][NextSeen]_vars

-----------------------------------------------------------------------------
\* The fault specification: likes, follows, comments and replies of ana and beto
\* on a store where beto has a post and a comment on it, with the write of the
\* Notification succeeding or failing.

MaxFaults == 2          \* requests handled

FaultUsers == {"ana", "beto"}

Tried(A) == handled < MaxFaults /\ handled' = handled + 1 /\ A

NextFaults ==
    \/ \E s \in FaultUsers, u \in FaultUsers, saved \in BOOLEAN :
           Tried(FollowToggle(s, "POST", u, now + 1, saved))
    \/ \E s \in FaultUsers, p \in DOMAIN posts, saved \in BOOLEAN :
           Tried(PostLikeToggle(s, "POST", p, now + 1, saved))
    \/ \E s \in FaultUsers, k \in DOMAIN comments, saved \in BOOLEAN :
           Tried(CommentLikeToggle(s, "POST", k, now + 1, saved))
    \/ \E s \in FaultUsers, p \in DOMAIN posts, saved \in BOOLEAN :
           Tried(AddComment(s, "POST", p, <<"a">>, now + 1, saved))
    \/ \E s \in FaultUsers, p \in DOMAIN posts, k \in DOMAIN comments, saved \in BOOLEAN :
           Tried(AddReply(s, "POST", p, k, <<"a">>, now + 1, saved))

SpecFaults == InitText /\ [][NextFaults]_vars

-----------------------------------------------------------------------------
\* The race specification: ana and beto like beto's post and follow each other,
\* every request one store operation at a time, any number of them in flight.

MaxRace == 3            \* requests admitted

Racers == {"ana", "beto"}

Raced(A) == handled < MaxRace /\ handled' = handled + 1 /\ A

NextRace ==
    \/ \E s \in Racers, p \in DOMAIN posts :
           Raced(LikeRead(handled + 1, s, "POST", p))
    \/ \E r \in inflight :
           LikeWrite(r, now + 1, TRUE) /\ UNCHANGED handled
    \/ \E r \in inflight :
           LikeAnswer(r) /\ UNCHANGED handled
    \/ \E s \in Racers, u \in Racers :
           Raced(FollowRead(handled + 1, s, "POST", u))
    \/ \E r \in inflight :
           FollowWrite(r, now + 1, TRUE) /\ UNCHANGED handled

SpecRace == InitText /\ [][NextRace]_vars

-----------------------------------------------------------------------------
\* The comments specification: ana and beto comment, reply and like under two
\* posts of beto, and the comment tree of a post is asked for at any time.

MaxComments == 4        \* writing requests handled

\* two posts of beto and no comment
InitComments ==
    /\ posts = <<[author_username |-> "beto", hashtags |-> <<<<"a">>>>, created_at |-> 1],
                 [author_username |-> "beto", hashtags |-> <<<<"a">>>>, created_at |-> 2]>>
    /\ post_liked_by = <<<<>>, <<>>>>
    /\ comments = <<>>
    /\ comment_liked_by = <<>>
    /\ has_comment = {}
    /\ has_reply = {}
    /\ following = [u \in Users |-> <<>>]
    /\ notifications = <<>>
    /\ messages = <<>>
    /\ now = 2
    /\ handled = 0
    /\ inflight = {}
    /\ resp = NoResponse

Commented(A) == handled < MaxComments /\ handled' = handled + 1 /\ A

NextComments ==
    \/ \E p \in DOMAIN posts :
           Commented(AddComment("ana", "POST", p, <<"a">>, now + 1, TRUE))
    \/ \E p \in DOMAIN posts, k \in DOMAIN comments :
           Commented(AddReply("ana", "POST", p, k, <<"a">>, now + 1, TRUE))
    \/ \E s \in {"ana", "beto"}, k \in DOMAIN comments :
           Commented(CommentLikeToggle(s, "POST", k, now + 1, TRUE))
    \/ \E s \in {"ana", Anonymous}, p \in 1..(Len(posts) + 1) :
           PostComments(s, p) /\ UNCHANGED handled

SpecComments == InitComments /\ [][NextComments]_vars


-----------------------------------------------------------------------------
\* The home feed (SpecFeed).  The response of home keeps the three lists it built.

FeedShown == resp.op = "home" /\ resp.status = 200

NoRepeat(seq) == \A i, j \in DOMAIN seq : seq[i] = seq[j] => i = j

Pos(seq, x) == CHOOSE i \in DOMAIN seq : seq[i] = x

Author(p) == posts[p].author_username

Followed(p, viewer) == Author(p) \in Range(following[viewer])

\* p carries a hashtag that, case ignored, a post of the viewer carries
SharesInterest(p, viewer) ==
    \E q \in DOMAIN posts :
        /\ Author(q) = viewer
        /\ \E t \in Range(posts[p].hashtags), u \in Range(posts[q].hashtags) :
               Lower(t) = Lower(u)

\* the ranking group of p for the viewer
Group(p, viewer) ==
    IF Followed(p, viewer) THEN 1 ELSE IF SharesInterest(p, viewer) THEN 2 ELSE 3

\* the ranking groups of all posts for the viewer
Groups(viewer) == [p \in DOMAIN posts |-> Group(p, viewer)]

\* p is ranked no later than q: an earlier group, or the same group and not older
RankedBefore(p, q, group) ==
    \/ group[p] < group[q]
    \/ group[p] = group[q] /\ posts[p].created_at >= posts[q].created_at

Min(a, b) == IF a <= b THEN a ELSE b

NotOwn(viewer) == {p \in DOMAIN posts : Author(p) # viewer}

\* C1: the feed holds no post twice, and the three lists home builds share no post.
C1_FeedHasNoDuplicates ==
    FeedShown =>
        /\ NoRepeat(resp.feed)
        /\ NoRepeat(resp.feed_following \o resp.feed_interests \o resp.feed_latest)

C1_Witness ==
    /\ FeedShown
    /\ \E p, q \in Range(resp.feed) :
           /\ p \in Range(resp.feed_following)
           /\ SharesInterest(p, resp.viewer)
           /\ q \in Range(resp.feed_interests)

\* C2 as stated: every post of a followed author is in the feed, in the first
\* list, ahead of every post of an author the viewer does not follow.
C2_FollowedPostAlwaysShown ==
    FeedShown =>
        \A p \in DOMAIN posts :
            Followed(p, resp.viewer) /\ Author(p) # resp.viewer =>
                /\ p \in Range(resp.feed_following)
                /\ p \in Range(resp.feed)
                /\ \A q \in Range(resp.feed) :
                       ~Followed(q, resp.viewer) => Pos(resp.feed, p) < Pos(resp.feed, q)

\* C2 amended: every post of a followed author is in the first list; it is in
\* the feed exactly when it is among the first 20 of that list, at the place it
\* has there; and a post of an author the viewer does not follow is in the feed
\* only behind every post of the followed authors.
C2_FollowedPostFirst ==
    FeedShown =>
        \A p \in DOMAIN posts :
            Followed(p, resp.viewer) /\ Author(p) # resp.viewer =>
                /\ p \in Range(resp.feed_following)
                /\ LET place == Pos(resp.feed_following, p)
                   IN  IF place <= FEED_LIMIT
                       THEN place \in DOMAIN resp.feed /\ resp.feed[place] = p
                       ELSE p \notin Range(resp.feed)
                /\ \A q \in Range(resp.feed) :
                       ~Followed(q, resp.viewer) =>
                           /\ p \in Range(resp.feed)
                           /\ Pos(resp.feed, p) < Pos(resp.feed, q)

C2_Witness ==
    /\ FeedShown
    /\ \E p, q \in Range(resp.feed) :
           /\ Followed(p, resp.viewer)
           /\ ~Followed(q, resp.viewer)
           /\ posts[q].created_at > posts[p].created_at

\* C3: the feed is the reference result: the posts of the other users, ranked by
\* group (followed author, then shared hashtag, then the rest) and by creation
\* time descending inside a group, cut to the first 20.
C3_FeedIsReference ==
    FeedShown =>
        /\ NoRepeat(resp.feed)
        /\ Range(resp.feed) \subseteq NotOwn(resp.viewer)
        /\ Len(resp.feed) = Min(FEED_LIMIT, Cardinality(NotOwn(resp.viewer)))
        /\ \A group \in {Groups(resp.viewer)} :
               /\ \A i, j \in DOMAIN resp.feed :
                      i < j => RankedBefore(resp.feed[i], resp.feed[j], group)
               /\ \A p \in Range(resp.feed), q \in NotOwn(resp.viewer) \ Range(resp.feed) :
                      RankedBefore(p, q, group)

C3_Witness ==
    /\ FeedShown
    /\ \E p, q \in Range(resp.feed) :
           /\ Group(p, resp.viewer) = 2
           /\ Group(q, resp.viewer) = 3
           /\ posts[q].created_at > posts[p].created_at
    /\ Len(resp.feed) = FEED_LIMIT

\* C4: the feed never holds more than 20 posts, and the viewer's own posts take
\* none of the 20 places: the feed is as long as the posts of the others allow.
C4_FeedAtMostTwenty ==
    FeedShown =>
        /\ Len(resp.feed) <= FEED_LIMIT
        /\ Len(resp.feed) = Min(FEED_LIMIT, Cardinality(NotOwn(resp.viewer)))

C4_Witness ==
    /\ FeedShown
    /\ Len(resp.feed) = FEED_LIMIT
    /\ \E own \in DOMAIN posts :
           /\ Author(own) = resp.viewer
           /\ \E p \in Range(resp.feed) :
                  /\ Group(p, resp.viewer) = Group(own, resp.viewer)
                  /\ posts[own].created_at > posts[p].created_at

\* C5: no post of the viewer is in the feed, and the second list is selected by
\* the hashtags of the viewer's own posts: it holds the posts of authors the
\* viewer does not follow that share a hashtag with one of them.
C5_OwnPostsHiddenButCounted ==
    FeedShown =>
        /\ \A p \in Range(resp.feed) : Author(p) # resp.viewer
        /\ Range(resp.feed_interests) =
               {p \in DOMAIN posts : ~Followed(p, resp.viewer) /\ SharesInterest(p, resp.viewer)}

C5_Witness ==
    /\ FeedShown
    /\ \E own \in Range(resp.feed_interests) : Author(own) = resp.viewer
    /\ \E p \in Range(resp.feed) : p \in Range(resp.feed_interests)

-----------------------------------------------------------------------------
\* Likes, follows and notifications (Spec).

\* the step handles one more request
Handles == handled' = handled + 1

LikeDone(r) == r.op \in {"post_like_toggle", "comment_like_toggle"} /\ r.status = 200

\* the liked_by edges of the target of a like response, after the step
LikedByAfter(r) ==
    IF r.op = "post_like_toggle" THEN post_liked_by'[r.target] ELSE comment_liked_by'[r.target]

\* C6: a like toggle answers liked = (the actor is in liked_by after the call) and
\* likes = size of liked_by after the call; a second toggle by the same actor on
\* the same target right after the first leaves the set liked_by had before the
\* first, and answers the liked state and the count of before the first.
C6_DoubleToggleRestores ==
    [][ /\ Handles /\ LikeDone(resp') =>
              /\ resp'.liked = (resp'.user \in Range(LikedByAfter(resp')))
              /\ resp'.likes = Cardinality(Range(LikedByAfter(resp')))
        /\ ( /\ Handles /\ LikeDone(resp) /\ LikeDone(resp')
             /\ resp'.op = resp.op /\ resp'.user = resp.user /\ resp'.target = resp.target ) =>
              /\ Range(LikedByAfter(resp')) = Range(resp.liked_users)
              /\ resp'.liked = (resp.user \in Range(resp.liked_users))
              /\ resp'.likes = Cardinality(Range(resp.liked_users))
              /\ resp'.liked = ~resp.liked
      ]_vars

\* Three requests handled, the last one an un-like: a post was created, liked,
\* and un-liked by the same actor in the next request.
C6_Witness ==
    /\ handled = 3
    /\ resp.op = "post_like_toggle" /\ resp.status = 200
    /\ ~resp.liked /\ resp.likes = 0
    /\ resp.user # posts[resp.target].author_username

NoSelfFollow == \A u \in Users : u \notin Range(following[u])

\* C7: a follow toggle of a logged-in caller on itself, or with a caller or a
\* target that is no user, is answered 400 and changes no FOLLOWS edge and no
\* notification; no user ever follows itself.
C7_InvalidFollowRefused ==
    /\ []NoSelfFollow
    /\ [][ Handles /\ resp'.op = "follow_toggle" =>
             \A s \in Names, u \in Names :
               ( /\ s \notin Users \/ u \notin Users \/ s = u
                 /\ FollowToggle(s, "POST", u, now + 1, TRUE) ) =>
                   /\ resp'.status = 400
                   /\ following' = following
                   /\ notifications' = notifications
         ]_vars

C7_Witness ==
    /\ resp.op = "follow_toggle" /\ resp.status = 400
    /\ \E u, v \in Users : v \in Range(following[u]) /\ u \notin Range(following[v])
    /\ notifications # <<>>

\* C8: a follow toggle between two distinct users removes the edge and answers
\* following = false when the edge exists; otherwise it creates the edge, answers
\* following = true and records one unseen `follow` notification to the target
\* from the actor.  No other edge changes, and a removal records nothing.
C8_FollowToggles ==
    [][ Handles /\ resp'.op = "follow_toggle" =>
          \A s \in Users, u \in Users :
            s # u /\ FollowToggle(s, "POST", u, now + 1, TRUE) =>
                /\ resp'.status = 200
                /\ \A w \in Users \ {s} : following'[w] = following[w]
                /\ Range(following'[s]) \ {u} = Range(following[s]) \ {u}
                /\ NoRepeat(following'[s])
                /\ IF u \in Range(following[s])
                   THEN /\ u \notin Range(following'[s])
                        /\ resp'.following = FALSE
                        /\ notifications' = notifications
                   ELSE /\ u \in Range(following'[s])
                        /\ resp'.following = TRUE
                        /\ notifications' =
                               Append(notifications,
                                      [to_username |-> u, from_username |-> s,
                                       type |-> "follow", target_uid |-> s,
                                       element_type |-> "account", seen |-> FALSE,
                                       created_at |-> now'])
      ]_vars

C8_Witness ==
    /\ resp.op = "follow_toggle" /\ resp.status = 200 /\ ~resp.following
    /\ resp.target \notin Range(following[resp.me])
    /\ \E i \in DOMAIN notifications :
           /\ notifications[i].type = "follow"
           /\ notifications[i].to_username = resp.target
           /\ notifications[i].from_username = resp.me

NoSelfNotification ==
    \A i \in DOMAIN notifications :
        notifications[i].to_username # notifications[i].from_username

\* the notification a like, comment or reply of `actor` records for `author`
Told(author, actor, type, target_uid, element_type) ==
    IF author # actor
    THEN Append(notifications,
                [to_username |-> author, from_username |-> actor, type |-> type,
                 target_uid |-> target_uid, element_type |-> element_type,
                 seen |-> FALSE, created_at |-> now'])
    ELSE notifications

\* C9: no notification has its recipient as its actor; a like, a comment and a
\* reply record one notification to the author of the target when the author is
\* not the actor and none when it is, and an un-like records none.
C9_NoSelfNotification ==
    /\ []NoSelfNotification
    /\ [][ Handles /\ resp'.status = 200 =>
             CASE resp'.op = "post_like_toggle" ->
                      notifications' =
                          IF resp'.liked
                          THEN Told(posts[resp'.target].author_username, resp'.user,
                                    "like_post", resp'.target, "post")
                          ELSE notifications
               [] resp'.op = "comment_like_toggle" ->
                      notifications' =
                          IF resp'.liked
                          THEN Told(comments[resp'.target].author_username, resp'.user,
                                    "like_comment", resp'.target, "comment")
                          ELSE notifications
               [] resp'.op = "post_add_comment" ->
                      notifications' =
                          Told(posts[resp'.post].author_username, resp'.me,
                               "comment_post", resp'.comment, "comment")
               [] resp'.op = "post_add_reply" ->
                      notifications' =
                          Told(comments[resp'.parent].author_username, resp'.me,
                               "reply_comment", resp'.comment, "comment")
               [] OTHER -> TRUE
         ]_vars

\* a post liked by its author and by another user, with the one notification
\* the other user's like recorded
C9_Witness ==
    /\ Len(notifications) = 1
    /\ notifications[1].type = "like_post"
    /\ \E p \in DOMAIN posts :
           /\ posts[p].author_username \in Range(post_liked_by[p])
           /\ Cardinality(Range(post_liked_by[p])) = 2

-----------------------------------------------------------------------------
\* The comment tree (SpecSteps).

ParentsOf(c) == {e \in has_comment \cup has_reply : e[2] = c}

\* the post at the end of the chain of reply parents of c, or 0 when the chain
\* ends at a comment without parent or does not end within `fuel` comments
RECURSIVE RootPost(_, _)
RootPost(c, fuel) ==
    IF \E e \in has_comment : e[2] = c
    THEN (CHOOSE e \in has_comment : e[2] = c)[1]
    ELSE IF fuel = 0 \/ ~\E e \in has_reply : e[2] = c
    THEN 0
    ELSE RootPost((CHOOSE e \in has_reply : e[2] = c)[1], fuel - 1)

\* C10: in every state, also between the statements of a running add_comment or
\* add_reply and after a failed one, every comment has exactly one parent (a post
\* or a comment) and its chain of parents ends at a post.
C10_EveryCommentUnderOnePost ==
    \A c \in DOMAIN comments :
        /\ Cardinality(ParentsOf(c)) = 1
        /\ RootPost(c, Len(comments)) \in DOMAIN posts

-----------------------------------------------------------------------------
\* The root post of a comment (SpecTree).

\* the comments reached from the set S over at most n HAS_REPLY edges, backwards
RECURSIVE Ancestry(_, _)
Ancestry(S, n) ==
    IF n = 0 THEN S
    ELSE Ancestry(S \cup {e[1] : e \in {x \in has_reply : x[2] \in S}}, n - 1)

\* c and the comments above it
AncestorsOf(c) == Ancestry({c}, Len(comments))

\* the posts with a HAS_COMMENT edge to c or to a comment above c
PostsAbove(c) == {e[1] : e \in {x \in has_comment : x[2] \in AncestorsOf(c)}}

\* C11: for every comment c, of any depth below a top-level comment T, the walk of
\* resolve_root_post ends, gives the post uid it gives for T, and gives None
\* exactly when no chain of parents of c leads to a post.
C11_ResolveFindsRootPost ==
    \A c \in DOMAIN comments :
        \A found \in {resolve_post_uid_for_comment(c)} :
            /\ Unending \notin found
            /\ (None \in found) <=> (PostsAbove(c) = {})
            /\ PostsAbove(c) # {} => found = PostsAbove(c)
            /\ \A t \in AncestorsOf(c) :
                   on_post(t) # {} => found = resolve_post_uid_for_comment(t)

\* a reply three levels below a top-level comment has been resolved to the post
C11_Witness ==
    /\ resp.op = "resolve_post_uid_for_comment"
    /\ resp.comment \in DOMAIN comments
    /\ Cardinality(AncestorsOf(resp.comment)) >= 4
    /\ resp.post_uid \in DOMAIN posts
    /\ resp.post_uid \in PostsAbove(resp.comment)

-----------------------------------------------------------------------------
\* Threads and the chat sidebar (SpecChat).

\* the messages of store `ms` that a sent to b or b sent to a
Between(ms, a, b) ==
    {i \in DOMAIN ms :
        \/ ms[i].sender_username = a /\ ms[i].receiver_username = b
        \/ ms[i].sender_username = b /\ ms[i].receiver_username = a}

\* this step is a thread fetch that was answered with the thread
Fetched == resp'.op = "chat_messages" /\ resp'.status = 200

\* the store outside the messages
Others ==
    <<posts, following, post_liked_by, comments, has_comment, has_reply, comment_liked_by,
      notifications, now, inflight, handled>>

\* C12: a thread fetch by caller C sets seen on exactly the fetched messages
\* addressed to C (the others keep their flag, and nothing else of a message
\* changes), and a fetch that directly follows a fetch of the same thread by the
\* same caller changes nothing in the store.
C12_FetchMarksSeenOnce ==
    [][Fetched =>
        /\ Len(messages') = Len(messages)
        /\ Range(resp'.all_msgs) = Between(messages, resp'.me, resp'.other)
        /\ \A i \in DOMAIN messages :
               /\ messages'[i] = [messages[i] EXCEPT !.seen = messages'[i].seen]
               /\ messages'[i].seen =
                      (\/ messages[i].seen
                       \/ /\ i \in Between(messages, resp'.me, resp'.other)
                          /\ messages[i].receiver_username = resp'.me)
        /\ UNCHANGED Others
        /\ (/\ resp.op = "chat_messages" /\ resp.status = 200
            /\ resp.me = resp'.me /\ resp.other = resp'.other)
           => /\ messages' = messages
              /\ resp' = resp
    ]_vars

\* beto has fetched the thread with ana: a message to him is seen, one from him is not
C12_Witness ==
    /\ resp.op = "chat_messages" /\ resp.status = 200 /\ resp.me = "beto"
    /\ \E i \in Range(resp.all_msgs) :
           messages[i].receiver_username = "beto" /\ messages[i].seen
    /\ \E i \in Range(resp.all_msgs) :
           messages[i].sender_username = "beto" /\ ~messages[i].seen

\* C13: the thread returned for a and b (a = b included) holds exactly the messages
\* between the two, each once, oldest first, and is_me marks the caller's own.
C13_ThreadIsBothDirectionsOnce ==
    [][Fetched =>
        \A out \in {resp'.messages} :
            /\ {out[k].uid : k \in DOMAIN out} = Between(messages, resp'.me, resp'.other)
            /\ \A j, k \in DOMAIN out : j < k =>
                   /\ out[j].uid # out[k].uid
                   /\ out[j].created_at <= out[k].created_at
            /\ \A k \in DOMAIN out :
                   /\ out[k].is_me = (messages[out[k].uid].sender_username = resp'.me)
                   /\ out[k].sender_username = messages[out[k].uid].sender_username
                   /\ out[k].receiver_username = messages[out[k].uid].receiver_username
    ]_vars

\* the same for two different users only
ThreadOfTwoIsBothDirectionsOnce ==
    [][Fetched /\ resp'.me # resp'.other =>
        \A out \in {resp'.messages} :
            /\ {out[k].uid : k \in DOMAIN out} = Between(messages, resp'.me, resp'.other)
            /\ \A j, k \in DOMAIN out : j < k =>
                   /\ out[j].uid # out[k].uid
                   /\ out[j].created_at <= out[k].created_at
            /\ \A k \in DOMAIN out :
                   out[k].is_me = (messages[out[k].uid].sender_username = resp'.me)
    ]_vars

\* the users on the other side of a message of the viewer
Partners(viewer) ==
    {u \in Names \ {viewer} : Between(messages, viewer, u) # {}}

\* C20: the sidebar of the viewer lists the followed users in following order, then
\* the other partners, each user once and never the viewer, and unread_count is
\* the number of unseen messages from that user to the viewer.
C20_SidebarListsPartners ==
    [][resp'.op = "chat_view" /\ resp'.status = 200 =>
        \A list \in {resp'.following} :
            /\ {list[k].username : k \in DOMAIN list}
                   = Range(following[resp'.me]) \cup Partners(resp'.me)
            /\ \A j, k \in DOMAIN list : j < k => list[j].username # list[k].username
            /\ \A k \in DOMAIN list : list[k].username # resp'.me
            /\ Len(list) >= Len(following[resp'.me])
            /\ \A k \in DOMAIN following[resp'.me] :
                   list[k].username = following[resp'.me][k]
            /\ \A k \in DOMAIN list :
                   list[k].unread_count =
                       Cardinality({i \in DOMAIN messages :
                                       /\ messages[i].sender_username = list[k].username
                                       /\ messages[i].receiver_username = resp'.me
                                       /\ ~messages[i].seen})
    ]_vars

\* ana follows someone, and a user she does not follow has written to her
C20_Witness ==
    /\ resp.op = "chat_view" /\ resp.status = 200
    /\ following[resp.me] # <<>>
    /\ Len(resp.following) > Len(following[resp.me])
    /\ resp.following[Len(resp.following)].unread_count > 0
    /\ resp.following[Len(resp.following)].username \notin Range(following[resp.me])

-----------------------------------------------------------------------------
\* Empty and over-long texts (SpecText).

\* how many blanks x starts with, and how many it ends with
LeadingBlanks(x) ==
    CHOOSE a \in 0..Len(x) :
        /\ \A i \in 1..a : x[i] = " "
        /\ a = Len(x) \/ x[a + 1] # " "

TrailingBlanks(x) ==
    CHOOSE b \in 0..Len(x) :
        /\ \A i \in 1..b : x[Len(x) + 1 - i] = " "
        /\ b = Len(x) \/ x[Len(x) - b] # " "

\* the text without the blanks before its first and after its last other character
Trimmed(x) ==
    IF LeadingBlanks(x) = Len(x) THEN <<>>
    ELSE SubSeq(x, LeadingBlanks(x) + 1, Len(x) - TrailingBlanks(x))

\* the first n characters of x, or x when it has no more
FirstChars(x, n) == SubSeq(x, 1, IF Len(x) < n THEN Len(x) ELSE n)

\* C15: a message with blank text and no stored image is refused with 400 and no
\* Message is created; with a stored image or a text it is answered 200 and
\* exactly one Message is added, unseen, from sender to receiver, whose text is
\* the trimmed text cut to its first 2000 characters.
C15_SendValidatesAndCuts ==
    [][\A x \in TextsAround(MESSAGE_MAX), f \in Uploads : \A t \in {Trimmed(x)} :
           ChatSend("ana", "POST", "beto", x, f, now + 1) =>
               IF t = <<>> /\ f # "stored"
               THEN /\ resp'.status = 400
                    /\ messages' = messages
               ELSE /\ resp'.status = 200
                    /\ Len(messages') = Len(messages) + 1
                    /\ SubSeq(messages', 1, Len(messages)) = messages
                    /\ \A m \in {messages'[Len(messages')]} :
                           /\ m.sender_username = "ana"
                           /\ m.receiver_username = "beto"
                           /\ ~m.seen
                           /\ m.text = FirstChars(t, MESSAGE_MAX)
                           /\ Len(m.text) <= MESSAGE_MAX
                           /\ (m.image_url # <<>>) = (f = "stored")
    ]_vars

\* a message of 2000 characters stands where 2001 were sent, and one with an image only
C15_Witness ==
    /\ \E i \in DOMAIN messages :
           Len(messages[i].text) = MESSAGE_MAX /\ messages[i].image_url = <<>>
    /\ \E i \in DOMAIN messages :
           messages[i].text = <<>> /\ messages[i].image_url # <<>>

\* C16: a comment or reply with blank text is refused with 400 and leaves
\* comments, edges and notifications as they were; with any other text it is
\* answered 200 and the Comment stored holds the trimmed text cut to its first
\* 500 characters.
C16_CommentValidatesAndCuts ==
    [][\A x \in TextsAround(COMMENT_MAX) : \A t \in {Trimmed(x)} :
           /\ AddComment("ana", "POST", 1, x, now + 1, TRUE) =>
                  IF t = <<>>
                  THEN /\ resp'.status = 400
                       /\ UNCHANGED <<comments, has_comment, has_reply, notifications>>
                  ELSE /\ resp'.status = 200
                       /\ Len(comments') = Len(comments) + 1
                       /\ comments'[Len(comments')].text = FirstChars(t, COMMENT_MAX)
                       /\ has_comment' = has_comment \cup {<<1, Len(comments')>>}
           /\ \A k \in DOMAIN comments :
                  AddReply("ana", "POST", 1, k, x, now + 1, TRUE) =>
                      IF t = <<>>
                      THEN /\ resp'.status = 400
                           /\ UNCHANGED <<comments, has_comment, has_reply, notifications>>
                      ELSE /\ resp'.status = 200
                           /\ Len(comments') = Len(comments) + 1
                           /\ comments'[Len(comments')].text = FirstChars(t, COMMENT_MAX)
                           /\ has_reply' = has_reply \cup {<<k, Len(comments')>>}
    ]_vars

\* a reply of 500 characters hangs under a comment of 500 characters, and the
\* request before was refused
C16_Witness ==
    /\ \E e \in has_reply :
           /\ Len(comments[e[2]].text) = COMMENT_MAX
           /\ comments[e[2]].text = Long(COMMENT_MAX)
    /\ \E e \in has_comment :
           e[2] > 1 /\ Len(comments[e[2]].text) = COMMENT_MAX

-----------------------------------------------------------------------------
\* The notification page (SpecNotif).

\* the notifications of store `ns` addressed to viewer
AddressedTo(ns, viewer) == {i \in DOMAIN ns : ns[i].to_username = viewer}

\* C17: the notification page of a viewer lists exactly the notifications
\* addressed to the viewer, newest first, sets seen on each of them and changes
\* no other notification, and the unread count rendered with the page is 0.
C17_ListMarksAllSeen ==
    [][resp'.op = "notifications_view" /\ resp'.status = 200 =>
        \A list \in {resp'.all_notifs} :
            /\ Range(list) = AddressedTo(notifications, resp'.me)
            /\ \A j, k \in DOMAIN list : j < k =>
                   /\ list[j] # list[k]
                   /\ notifications[list[j]].created_at >= notifications[list[k]].created_at
            /\ \A k \in DOMAIN list : resp'.notifications[k].uid = list[k]
            /\ DOMAIN notifications' = DOMAIN notifications
            /\ \A i \in DOMAIN notifications :
                   notifications'[i] =
                       IF notifications[i].to_username = resp'.me
                       THEN [notifications[i] EXCEPT !.seen = TRUE]
                       ELSE notifications[i]
            /\ resp'.notifications_unread_count = 0
            /\ \A i \in AddressedTo(notifications', resp'.me) : notifications'[i].seen
    ]_vars

\* ana has opened her page: her two notifications are seen, one of beto's is not
C17_Witness ==
    /\ resp.op = "notifications_view" /\ resp.status = 200 /\ resp.me = "ana"
    /\ Len(resp.all_notifs) >= 2
    /\ \A i \in AddressedTo(notifications, "ana") : notifications[i].seen
    /\ \E i \in AddressedTo(notifications, "beto") : ~notifications[i].seen

-----------------------------------------------------------------------------
\* The seen flags (SpecSeen).

\* the reads that end in this step
Ending(kind) == {r \in inflight \ inflight' : r.kind = kind}

\* in this step the flags of store `old`, now `new`, only go from false to true,
\* and only for objects that a read of `kind` ending now collected and whose
\* recipient, named by To, is its reader; new objects are unseen
SeenOnlyByReader(old, new, kind, To(_)) ==
    /\ Len(new) >= Len(old)
    /\ \A i \in DOMAIN old :
           /\ old[i].seen => new[i].seen
           /\ new[i] = [old[i] EXCEPT !.seen = new[i].seen]
           /\ (~old[i].seen /\ new[i].seen) =>
                  \E r \in Ending(kind) : r.me = To(old[i]) /\ i \in Range(r.list)
    /\ \A i \in DOMAIN new \ DOMAIN old : ~new[i].seen

\* C14: in every step, seen flags of messages and notifications only change from
\* false to true, only when a thread fetch (notification page) of the recipient
\* ends, and only for the objects that read had collected: a message from the
\* reader, or one saved after the list was collected, keeps its flag.
C14_SeenOnlyRisesByRecipient ==
    [][/\ SeenOnlyByReader(messages, messages', "fetch", LAMBDA m : m.receiver_username)
       /\ SeenOnlyByReader(notifications, notifications', "page", LAMBDA n : n.to_username)
    ]_vars

\* beto's fetch has ended: a message to him that it had collected is seen, one
\* ana sent while the fetch was in progress is not, and beto's own is not
C14_Witness ==
    /\ resp.op = "chat_messages" /\ resp.status = 200 /\ resp.me = "beto"
    /\ \E i \in Range(resp.all_msgs) :
           messages[i].receiver_username = "beto" /\ messages[i].seen
    /\ \E i \in DOMAIN messages \ Range(resp.all_msgs) :
           messages[i].receiver_username = "beto" /\ ~messages[i].seen
    /\ \E i \in Range(resp.all_msgs) :
           messages[i].sender_username = "beto" /\ ~messages[i].seen

-----------------------------------------------------------------------------
\* Lost notifications (SpecFaults).

\* the edge list `new` is `old` with `user` added when absent and removed when present
Toggled(old, new, user) ==
    Range(new) = IF user \in Range(old) THEN Range(old) \ {user}
                 ELSE Range(old) \cup {user}

\* C18: when the write of the Notification fails, a like, follow, comment or
\* reply still has its whole effect and its normal response (status 200 with
\* liked / following / ok), and no notification is recorded, then or later in
\* the request.
C18_LostNotificationIsSilent ==
    [][\A s \in FaultUsers :
        /\ \A u \in FaultUsers \ {s} :
               FollowToggle(s, "POST", u, now + 1, FALSE) =>
                   /\ resp'.status = 200
                   /\ Toggled(following[s], following'[s], u)
                   /\ resp'.following = (u \in Range(following'[s]))
                   /\ notifications' = notifications
        /\ \A p \in DOMAIN posts :
               PostLikeToggle(s, "POST", p, now + 1, FALSE) =>
                   /\ resp'.status = 200
                   /\ Toggled(post_liked_by[p], post_liked_by'[p], s)
                   /\ resp'.liked = (s \in Range(post_liked_by'[p]))
                   /\ resp'.likes = Cardinality(Range(post_liked_by'[p]))
                   /\ notifications' = notifications
        /\ \A k \in DOMAIN comments :
               CommentLikeToggle(s, "POST", k, now + 1, FALSE) =>
                   /\ resp'.status = 200
                   /\ Toggled(comment_liked_by[k], comment_liked_by'[k], s)
                   /\ resp'.liked = (s \in Range(comment_liked_by'[k]))
                   /\ resp'.likes = Cardinality(Range(comment_liked_by'[k]))
                   /\ notifications' = notifications
        /\ \A p \in DOMAIN posts :
               AddComment(s, "POST", p, <<"a">>, now + 1, FALSE) =>
                   /\ resp'.status = 200 /\ resp'.ok
                   /\ Len(comments') = Len(comments) + 1
                   /\ comments'[Len(comments')].author_username = s
                   /\ has_comment' = has_comment \cup {<<p, Len(comments')>>}
                   /\ notifications' = notifications
        /\ \A p \in DOMAIN posts, k \in DOMAIN comments :
               AddReply(s, "POST", p, k, <<"a">>, now + 1, FALSE) =>
                   /\ resp'.status = 200 /\ resp'.ok
                   /\ Len(comments') = Len(comments) + 1
                   /\ comments'[Len(comments')].author_username = s
                   /\ has_reply' = has_reply \cup {<<k, Len(comments')>>}
                   /\ notifications' = notifications
    ]_vars

\* ana has liked beto's post and replied to his comment, and beto was told of neither
C18_Witness ==
    /\ resp.op = "post_add_reply" /\ resp.status = 200 /\ resp.me = "ana"
    /\ comments[resp.parent].author_username = "beto"
    /\ <<resp.parent, resp.comment>> \in has_reply
    /\ "ana" \in Range(post_liked_by[1])
    /\ notifications = <<>>

-----------------------------------------------------------------------------
\* Racing toggles (SpecRace).

\* at most one liked_by edge per (post, user) and one FOLLOWS edge per (user, user)
OneEdgePerPair ==
    /\ \A p \in DOMAIN post_liked_by : NoRepeat(post_liked_by[p])
    /\ \A u \in DOMAIN following : NoRepeat(following[u])

-----------------------------------------------------------------------------
\* The post of a reply (Spec).

\* a reply has just been saved and attached
Replied == resp.op = "post_add_reply" /\ resp.status = 200

\* C21: after a successful post_add_reply the walk from the new reply ends at
\* the post named in the request.
C21_ReplyUnderNamedPost ==
    Replied => resolve_post_uid_for_comment(resp.comment) = {resp.post}

\* after a successful post_add_reply the walk from the new reply ends where the
\* walk from its parent comment ends, whatever post the request names
ReplyUnderPostOfParent ==
    Replied => resolve_post_uid_for_comment(resp.comment) =
                   resolve_post_uid_for_comment(resp.parent)

-----------------------------------------------------------------------------
\* The comment tree of a post (SpecComments).

\* the nodes of a list of comment nodes and of the lists nested in them
RECURSIVE NodesOf(_)
NodesOf(nodes) ==
    UNION {{nodes[i]} \cup NodesOf(nodes[i].replies) : i \in DOMAIN nodes}

\* the uids of a list of comment nodes and of the lists nested in them, one
\* entry for each time a comment is listed
RECURSIVE UidsOf(_)
UidsOf(nodes) ==
    IF nodes = <<>> THEN <<>>
    ELSE <<Head(nodes).uid>> \o UidsOf(Head(nodes).replies) \o UidsOf(Tail(nodes))

\* the comments whose walk to the root ends at the post
ResolvedTo(post_uid) ==
    {c \in DOMAIN comments : resolve_post_uid_for_comment(c) = {post_uid}}

TreeShown == resp.op = "post_comments_json" /\ resp.status = 200

\* C22: the tree post_comments_json answers for a post lists exactly the
\* comments that resolve to the post, each once; a top-level node has a
\* HAS_COMMENT edge from the post, a nested node a HAS_REPLY edge from the node
\* it is nested in; the likes of a node is the number of users that like it.
C22_TreeIsTheCommentsOfThePost ==
    TreeShown =>
        \A listing \in {UidsOf(resp.comments)} :
            /\ Range(listing) = ResolvedTo(resp.post)
            /\ NoRepeat(listing)
            /\ \A i \in DOMAIN resp.comments :
                   <<resp.post, resp.comments[i].uid>> \in has_comment
            /\ \A n \in NodesOf(resp.comments) :
                   /\ {r.uid : r \in Range(n.replies)} = replies_of(n.uid)
                   /\ n.likes = Cardinality(Range(comment_liked_by[n.uid]))

\* the tree of post 1 has a comment with a liked reply nested in it, while
\* post 2 has a comment of its own
C22_Witness ==
    /\ TreeShown /\ resp.post = 1
    /\ \E n \in NodesOf(resp.comments) :
           \E i \in DOMAIN n.replies : n.replies[i].likes = 1
    /\ comments_of(2) # {}

====
